---------------------------- MODULE Spec2Model ----------------------------
(***************************************************************************)
(* A model of the transport session of the twitter API v2 client:          *)
(* Client.Call, Client.CallRaw and Client.Stream, with the streaming       *)
(* decode loop, the cancellation watcher goroutine and the response body   *)
(* they share.                                                             *)
(*                                                                         *)
(* Representation.                                                         *)
(*   - A JSON value on the wire is a record [kind, data]:                  *)
(*       kind "obj"  a JSON object {"data": data}, decodable as a Reply;   *)
(*       kind "arr"  valid JSON that is not an object (json.Unmarshal into *)
(*                   the Reply struct fails);                              *)
(*       kind "bad"  a malformed fragment (a syntax error in the decoder). *)
(*     A body is a sequence of such values.                                *)
(*   - A Go error value is its Unwrap chain: a sequence of nodes, the      *)
(*     outermost first; the nil error is the empty chain.                  *)
(***************************************************************************)
EXTENDS Integers, Sequences, FiniteSets, TLC

\* Bounds of the model.
MaxMsgs == 3        \* values the server writes to one streamed body
MaxBody == 2        \* values in the body of a non-streamed response
MaxVals == 2        \* values stored for one parameter name
MaxItems == 2       \* elements of the data array of a reply

\* Program constants.
StatusOK == 200
StatusCreated == 201

VARIABLES
  op,           \* the operation in progress: "none", "Call", "CallRaw", "Stream"
  pc,           \* position of the calling goroutine
  status,       \* rsp.StatusCode (0: no response was obtained)
  sentAll,      \* every value the server has written to the body, in order
  wire,         \* the values written and not yet read by the client
  eof,          \* the server's end of the body: "open", "clean", "partial"
  buf,          \* json.Decoder's buffer: values read and not yet decoded
  delivered,    \* the Reply passed to each callback invocation, in order
  cbRet,        \* the error returned by each callback invocation, in order
  ctxCancelled, \* the caller's context has been cancelled
  cancelCalled, \* stream's deferred cancel() has run
  wpc,          \* the watcher goroutine: "none", "waiting", "done"
  bodyClosed,   \* the body has been closed
  closeCount,   \* number of calls of body.Close
  endCause,     \* why the decode loop ended
  streamErr,    \* the error returned by Client.stream
  ret           \* what the operation returned: [reply, data, dataNil, err]

\* Client.start, step by step (the construction of one outbound request).
VARIABLES
  startPc,      \* position in Client.start
  cfg,          \* the Request and the Client configuration start works from
  hreq,         \* the *http.Request under construction
  authView,     \* the request as the Authorizer saw it when it was called
  sentReq,      \* the request handed to the HTTP client
  startErr      \* the error start returned

\* Params and the query string built from it.
VARIABLES
  params,       \* the Params map: parameter name -> list of values
  lastOp,       \* the last operation on params: [op, name, vals, before]
  rawQuery      \* u.RawQuery: the encoded query, a list of [k, v] pairs

\* Query.Invoke of the rules and tweets packages.
VARIABLES
  invPc,        \* "off", "call" (before Invoke), "done" (Invoke returned)
  invIn,        \* the query kind and what Client.Call returns to Invoke
  invOut        \* what Invoke returned: [items, hasMeta, err]

\* The diagnostic hook.
VARIABLES
  hasLog,       \* Client.Log is set
  logged        \* the calls of Client.Log so far: [tag, msg]

clientVars == <<op, pc, status, sentAll, wire, eof, buf, delivered, cbRet,
                ctxCancelled, cancelCalled, wpc, bodyClosed, closeCount,
                endCause, streamErr, ret>>

startVars == <<startPc, cfg, hreq, authView, sentReq, startErr>>

paramVars == <<params, lastOp, rawQuery>>

invokeVars == <<invPc, invIn, invOut>>

\* The variables the transport session's responses do not touch.
auxVars == <<startVars, paramVars, invokeVars>>

logVars == <<hasLog, logged>>

vars == <<clientVars, auxVars, logVars>>

--------------------------------------------------------------------------
\* JSON values and bodies.

\* The payloads of the objects the server sends.
Payloads == {1, 2}

Values ==
  [kind : {"obj"}, data : Payloads] \cup [kind : {"arr", "bad"}, data : {0}]

RECURSIVE SeqsUpTo(_, _)
SeqsUpTo(S, n) ==
  IF n = 0 THEN {<<>>}
  ELSE LET shorter == SeqsUpTo(S, n - 1)
       IN  shorter \cup {Append(s, v) : s \in {t \in shorter : Len(t) = n - 1}, v \in S}

Bodies == SeqsUpTo(Values, MaxBody)

Statuses == {StatusOK, StatusCreated, 429}

\* json.Unmarshal(body, &reply): the bytes must be exactly one JSON value,
\* and that value must be an object.
UnmarshalOK(b) == Len(b) = 1 /\ b[1].kind = "obj"

\* The Reply a valid envelope decodes to.
NilReply == <<>>
Unmarshal(b) == <<[Data |-> b[1].data]>>

--------------------------------------------------------------------------
\* Errors.

NilErr == <<>>
Basic(name) ==
  <<[type |-> "basic", Status |-> 0, Data |-> <<>>, Message |-> name]>>
ErrStopStreaming == Basic("stop streaming")
IoEOF == Basic("EOF")
ErrUnexpectedEOF == Basic("unexpected EOF")
SyntaxError == Basic("invalid character")
UnmarshalTypeError == Basic("cannot unmarshal")
ErrBodyClosed == Basic("read on closed response body")
ErrTransport == Basic("transport")

\* fmt.Errorf("...: %w", e), as a caller of the library may wrap an error.
Wrapped(e) ==
  <<[type |-> "wrap", Status |-> 0, Data |-> <<>>, Message |-> "wrapped"]>> \o e

\* &Error{Status: s, Data: d, Message: m, Err: e}
MkError(s, d, m, e) ==
  <<[type |-> "Error", Status |-> s, Data |-> d, Message |-> m]>> \o e

\* (*Error).Unwrap and the Unwrap of a %w wrapper: the cause.
Unwrap(e) == Tail(e)

\* errors.Is(err, target) for a non-nil target
RECURSIVE ErrorsIs(_, _)
ErrorsIs(err, target) ==
  IF err = NilErr THEN FALSE
  ELSE IF err = target THEN TRUE
  ELSE ErrorsIs(Unwrap(err), target)

\* err.(*Error)
IsErrorType(err) == err # NilErr /\ err[1].type = "Error"

--------------------------------------------------------------------------
\* Non-streaming calls.

NoRet == [reply |-> NilReply, data |-> <<>>, dataNil |-> TRUE, err |-> NilErr]

\* Mutant: only 200 counts as success.
ReceiveStatusOK_Only200(s) == s = StatusOK

\* The status switch of Client.receive.
ReceiveStatusOK(s) == s \in {StatusOK, StatusCreated}

\* Mutant: the status error loses the body.
Receive_DropsBody(s, b) ==
  IF s \in {StatusOK, StatusCreated}
  THEN [NoRet EXCEPT !.data = b, !.dataNil = FALSE]
  ELSE [NoRet EXCEPT !.err = MkError(s, <<>>, "request failed", NilErr)]

\* Client.receive: drain the body, close it, classify the status.
Receive(s, b) ==
  IF ReceiveStatusOK(s)
  THEN [NoRet EXCEPT !.data = b, !.dataNil = FALSE]
  ELSE [NoRet EXCEPT !.err = MkError(s, b, "request failed", NilErr)]

\* Mutant: the decode failure is returned as a bare error.
Finish_BareDecodeError(s, b) ==
  LET r == Receive(s, b)
  IN  IF r.err # NilErr THEN [NoRet EXCEPT !.err = r.err]
      ELSE IF ~UnmarshalOK(r.data) THEN [NoRet EXCEPT !.err = SyntaxError]
      ELSE [NoRet EXCEPT !.reply = Unmarshal(r.data)]

\* Mutant: the decode failure carries the status of the response.
Finish_StatusInDecodeError(s, b) ==
  LET r == Receive(s, b)
  IN  IF r.err # NilErr THEN [NoRet EXCEPT !.err = r.err]
      ELSE IF ~UnmarshalOK(r.data)
      THEN [NoRet EXCEPT
              !.err = MkError(s, r.data, "decoding response body", SyntaxError)]
      ELSE [NoRet EXCEPT !.reply = Unmarshal(r.data)]

\* Client.finish: receive, then decode the envelope.
Finish(s, b) ==
  LET r == Receive(s, b)
  IN  IF r.err # NilErr THEN [NoRet EXCEPT !.err = r.err]
      ELSE IF ~UnmarshalOK(r.data)
      THEN [NoRet EXCEPT
              !.err = MkError(0, r.data, "decoding response body", SyntaxError)]
      ELSE [NoRet EXCEPT !.reply = Unmarshal(r.data)]

StartPhases == {"invalid request URL", "invalid request",
                "attaching authorization", "issuing request"}

\* c.log for each of the entries, in order: a call of Client.Log when h
\* (the hook is set), nothing otherwise.
LogTo(h, l, entries) == IF h THEN l \o entries ELSE l

Entry(tag, msg) == [tag |-> tag, msg |-> msg]

\* The hook is fixed for the life of the Client; the calls of one handler
\* are appended to the earlier ones.
Log(entries) ==
  /\ logged' = LogTo(hasLog, logged, entries)
  /\ UNCHANGED hasLog

\* Client.start failed: no response was obtained.  h: the hook is set.
StartFailWith(h, o, msg) ==
  /\ pc = "idle"
  /\ op' = o
  /\ ret' = [NoRet EXCEPT !.err = MkError(0, <<>>, msg, ErrTransport)]
  /\ pc' = "done"
  /\ UNCHANGED <<status, sentAll, wire, eof, buf, delivered, cbRet,
                 ctxCancelled, cancelCalled, wpc, bodyClosed, closeCount,
                 endCause, streamErr>>
  /\ UNCHANGED auxVars

\* What Client.start logs before it returns.
StartLogs(msg) ==
  IF msg = "invalid request URL" THEN <<>>
  ELSE <<Entry("RequestURL", "requestURL")>>

StartFail(o, msg) == StartFailWith(hasLog, o, msg) /\ Log(StartLogs(msg))

\* Mutant: the body is closed with nothing read from it.
Responded_NoDrain(o, s, b) ==
  /\ pc = "idle"
  /\ op' = o
  /\ status' = s
  /\ sentAll' = b
  /\ eof' = "clean"
  /\ bodyClosed' = TRUE
  /\ closeCount' = closeCount + 1
  /\ wire' = b
  /\ pc' = "done"
  /\ UNCHANGED <<buf, delivered, cbRet, ctxCancelled, cancelCalled,
                 wpc, endCause, streamErr>>
  /\ UNCHANGED auxVars

\* The server's response to a non-streamed request: status s, body b, all
\* of it read by io.Copy (nothing is left unread) before the body is closed.
Responded(o, s, b) ==
  /\ pc = "idle"
  /\ op' = o
  /\ status' = s
  /\ sentAll' = b
  /\ eof' = "clean"
  /\ bodyClosed' = TRUE
  /\ closeCount' = closeCount + 1
  /\ wire' = <<>>
  /\ pc' = "done"
  /\ UNCHANGED <<buf, delivered, cbRet, ctxCancelled, cancelCalled,
                 wpc, endCause, streamErr>>
  /\ UNCHANGED auxVars

\* What Client.start and Client.receive log for a response.
ReceiveLogs(h, s, b) ==
  StartLogs("") \o <<Entry("HTTPStatus", s)>>
  \o (IF h THEN <<Entry("ResponseBody", b)>> ELSE <<>>)

\* Client.Call, its log calls apart.  h: the hook is set.
CallWith(h, s, b) == Responded("Call", s, b) /\ ret' = Finish(s, b)

\* Client.Call
Call(s, b) == CallWith(hasLog, s, b) /\ Log(ReceiveLogs(hasLog, s, b))

\* Client.CallRaw, its log calls apart.  h: the hook is set.
CallRawWith(h, s, b) == Responded("CallRaw", s, b) /\ ret' = Receive(s, b)

\* Client.CallRaw
CallRaw(s, b) == CallRawWith(hasLog, s, b) /\ Log(ReceiveLogs(hasLog, s, b))

--------------------------------------------------------------------------
\* Streaming.

\* The status check at the entry of Client.stream.
StreamStatusOK(s) == s = StatusOK

\* Mutant: the stop sentinel is not recognised.
StreamResult_IgnoresStop(err) ==
  IF ~ErrorsIs(err, IoEOF)
  THEN IF IsErrorType(err) THEN err ELSE MkError(0, <<>>, "callback", err)
  ELSE NilErr

\* Client.Stream's conversion of the error returned by Client.stream.
StreamResult(err) ==
  IF ErrorsIs(err, ErrStopStreaming) THEN NilErr
  ELSE IF ~ErrorsIs(err, IoEOF)
       THEN IF IsErrorType(err) THEN err
            ELSE MkError(0, <<>>, "callback", err)
       ELSE NilErr

\* Mutant: the body of a rejected stream is read only to be logged.
StreamReject_ReadsForLog(h, s, b) ==
  /\ pc = "idle"
  /\ ~StreamStatusOK(s)
  /\ op' = "Stream"
  /\ status' = s
  /\ sentAll' = b
  /\ eof' = "clean"
  /\ bodyClosed' = TRUE
  /\ closeCount' = closeCount + 1
  /\ endCause' = "status"
  /\ streamErr' = MkError(s, IF h THEN b ELSE <<>>, "request failed", NilErr)
  /\ ret' = [NoRet EXCEPT !.err = StreamResult(streamErr')]
  /\ wire' = IF h THEN <<>> ELSE b
  /\ pc' = "done"
  /\ UNCHANGED <<buf, delivered, cbRet, ctxCancelled, cancelCalled, wpc>>
  /\ UNCHANGED auxVars

\* Client.stream with a non-success status: read the body, return the
\* Error; the deferred body.Close runs, no watcher was started.  h: the
\* hook is set.
StreamRejectWith(h, s, b) ==
  /\ pc = "idle"
  /\ ~StreamStatusOK(s)
  /\ op' = "Stream"
  /\ status' = s
  /\ sentAll' = b
  /\ eof' = "clean"
  /\ bodyClosed' = TRUE
  /\ closeCount' = closeCount + 1
  /\ endCause' = "status"
  /\ streamErr' = MkError(s, b, "request failed", NilErr)
  /\ ret' = [NoRet EXCEPT !.err = StreamResult(streamErr')]
  /\ wire' = <<>>
  /\ pc' = "done"
  /\ UNCHANGED <<buf, delivered, cbRet, ctxCancelled, cancelCalled, wpc>>
  /\ UNCHANGED auxVars

StreamReject(s, b) ==
  StreamRejectWith(hasLog, s, b) /\ Log(ReceiveLogs(hasLog, s, b))

\* Client.stream with a success status: derive the cancellable context,
\* start the watcher goroutine and enter the decode loop.  h: the hook is
\* set.
StreamOpenWith(h, s) ==
  /\ pc = "idle"
  /\ StreamStatusOK(s)
  /\ op' = "Stream"
  /\ status' = s
  /\ wpc' = "waiting"
  /\ pc' = "decode"
  /\ UNCHANGED <<sentAll, wire, eof, buf, delivered, cbRet, ctxCancelled,
                 cancelCalled, bodyClosed, closeCount, endCause, streamErr,
                 ret>>
  /\ UNCHANGED auxVars

StreamOpen(s) ==
  StreamOpenWith(hasLog, s)
  /\ Log(StartLogs("") \o <<Entry("HTTPStatus", s)>>)

\* The server writes one more value to the open body.
ServerSend(v) ==
  /\ op = "Stream" /\ pc \in {"decode", "callback"}
  /\ eof = "open" /\ ~bodyClosed
  /\ Len(sentAll) < MaxMsgs
  /\ sentAll' = Append(sentAll, v)
  /\ wire' = Append(wire, v)
  /\ UNCHANGED <<op, pc, status, eof, buf, delivered, cbRet, ctxCancelled,
                 cancelCalled, wpc, bodyClosed, closeCount, endCause,
                 streamErr, ret>>
  /\ UNCHANGED <<auxVars, logVars>>

\* The server ends the body, cleanly or in the middle of a value.
ServerClose(how) ==
  /\ op = "Stream" /\ pc \in {"decode", "callback"}
  /\ eof = "open" /\ ~bodyClosed
  /\ eof' = how
  /\ UNCHANGED <<op, pc, status, sentAll, wire, buf, delivered, cbRet,
                 ctxCancelled, cancelCalled, wpc, bodyClosed, closeCount,
                 endCause, streamErr, ret>>
  /\ UNCHANGED <<auxVars, logVars>>

\* The caller cancels the context it passed to Stream.
CancelCtx ==
  /\ op = "Stream" /\ pc \in {"decode", "callback"}
  /\ ~ctxCancelled
  /\ ctxCancelled' = TRUE
  /\ UNCHANGED <<op, pc, status, sentAll, wire, eof, buf, delivered, cbRet,
                 cancelCalled, wpc, bodyClosed, closeCount, endCause,
                 streamErr, ret>>
  /\ UNCHANGED <<auxVars, logVars>>

\* The derived context is done: the caller's context ended or cancel() ran.
CtxDone == ctxCancelled \/ cancelCalled

\* Mutant: the watcher ends without closing the body.
WatcherClose_NoClose ==
  /\ wpc = "waiting"
  /\ CtxDone
  /\ wpc' = "done"
  /\ UNCHANGED <<op, pc, status, sentAll, wire, eof, buf, delivered, cbRet,
                 ctxCancelled, cancelCalled, bodyClosed, closeCount, endCause,
                 streamErr, ret>>
  /\ UNCHANGED <<auxVars, logVars>>

\* The watcher goroutine: <-ctx.Done(); body.Close()
WatcherClose ==
  /\ wpc = "waiting"
  /\ CtxDone
  /\ bodyClosed' = TRUE
  /\ closeCount' = closeCount + 1
  /\ wpc' = "done"
  /\ UNCHANGED <<op, pc, status, sentAll, wire, eof, buf, delivered, cbRet,
                 ctxCancelled, cancelCalled, endCause, streamErr, ret>>
  /\ UNCHANGED <<auxVars, logVars>>

\* What a Read of the body reports once the body has been closed under the
\* reader: the transport's choice, an error or an end of file.
ClosedReadErrs == {ErrBodyClosed, IoEOF}

\* Client.stream returns err: the deferred calls are next.
Return(err, cause) ==
  /\ streamErr' = err
  /\ endCause' = cause
  /\ pc' = "defer_cancel"
  /\ UNCHANGED delivered

\* One value v left the decoder: unmarshal it and invoke the callback.
Dispatch(v) ==
  IF v.kind = "bad"
  THEN Return(MkError(0, <<>>, "decoding message from stream", SyntaxError),
              "syntax")
  ELSE IF ~UnmarshalOK(<<v>>)
  THEN Return(MkError(0, <<v>>, "decoding stream response",
                      UnmarshalTypeError), "unmarshal")
  ELSE /\ delivered' = Append(delivered, Unmarshal(<<v>>)[1])
       /\ pc' = "callback"
       /\ UNCHANGED <<streamErr, endCause>>

\* Mutant: the decoder hands out the newest buffered value.
NextValue_Newest(b) == b[Len(b)]

\* The value dec.Decode hands out of a non-empty buffer.
NextValue(b) == Head(b)

\* dec.Decode(&next) and what follows it up to the call of f.  The decoder
\* serves a value from its buffer when it holds one; otherwise it reads from
\* the body whatever the body has (one value or several), and blocks when
\* the body is open and has nothing.  h: the hook is set.
DecodeWith(h) ==
  /\ pc = "decode"
  /\ \/ /\ buf # <<>>
        /\ buf' = Tail(buf)
        /\ wire' = wire
        /\ Dispatch(NextValue(buf))
     \/ /\ buf = <<>> /\ bodyClosed
        /\ UNCHANGED <<buf, wire>>
        /\ \E e \in ClosedReadErrs :
             IF e = IoEOF THEN Return(NilErr, "closedEOF")
             ELSE Return(MkError(0, <<>>, "decoding message from stream", e),
                         "closed")
     \/ /\ buf = <<>> /\ ~bodyClosed /\ wire # <<>>
        /\ \E n \in 1..Len(wire) :
             /\ buf' = Tail(SubSeq(wire, 1, n))
             /\ wire' = SubSeq(wire, n + 1, Len(wire))
             /\ Dispatch(NextValue(SubSeq(wire, 1, n)))
     \/ /\ buf = <<>> /\ ~bodyClosed /\ wire = <<>> /\ eof = "clean"
        /\ UNCHANGED <<buf, wire>>
        /\ Return(NilErr, "eof")
     \/ /\ buf = <<>> /\ ~bodyClosed /\ wire = <<>> /\ eof = "partial"
        /\ UNCHANGED <<buf, wire>>
        /\ Return(MkError(0, <<>>, "decoding message from stream",
                          ErrUnexpectedEOF), "partial")
  /\ UNCHANGED <<op, status, sentAll, eof, cbRet, ctxCancelled, cancelCalled,
                 wpc, bodyClosed, closeCount, ret>>
  /\ UNCHANGED auxVars

\* The value the step of Decode took out of the decoder, if it took one.
Decoded ==
  IF buf # <<>> THEN <<NextValue(buf)>>
  ELSE IF ~bodyClosed /\ wire # <<>>
  THEN <<NextValue(SubSeq(wire, 1, Len(wire) - Len(wire')))>>
  ELSE <<>>

\* The loop logs each message it decoded, before it is unmarshalled.
StreamBodyLogs(h) ==
  IF h /\ Decoded # <<>> /\ Decoded[1].kind # "bad"
  THEN <<Entry("StreamBody", Decoded[1])>>
  ELSE <<>>

Decode == DecodeWith(hasLog) /\ Log(StreamBodyLogs(hasLog))

\* An *Error with a status of its own, as a callback that calls the API may
\* return it.
CallbackStatusError == MkError(500, <<>>, "request failed", NilErr)

\* The errors a callback may return (nil: continue).
CallbackResults ==
  {NilErr, ErrStopStreaming, Wrapped(ErrStopStreaming), IoEOF, Basic("boom"),
   CallbackStatusError}

\* Mutant: the loop goes on after the callback reported an error.
CallbackReturn_KeepsGoing(e) ==
  /\ pc = "callback"
  /\ cbRet' = Append(cbRet, e)
  /\ pc' = "decode"
  /\ streamErr' = (IF e = NilErr THEN streamErr
                   ELSE MkError(0, <<>>, "callback", e))
  /\ endCause' = (IF e = NilErr THEN endCause ELSE "callback")
  /\ UNCHANGED <<op, status, sentAll, wire, eof, buf, delivered, ctxCancelled,
                 cancelCalled, wpc, bodyClosed, closeCount, ret>>
  /\ UNCHANGED <<auxVars, logVars>>

\* The callback f returns e.
CallbackReturn(e) ==
  /\ pc = "callback"
  /\ cbRet' = Append(cbRet, e)
  /\ IF e = NilErr
     THEN pc' = "decode" /\ UNCHANGED <<streamErr, endCause, delivered>>
     ELSE Return(MkError(0, <<>>, "callback", e), "callback")
  /\ UNCHANGED <<op, status, sentAll, wire, eof, buf, ctxCancelled,
                 cancelCalled, wpc, bodyClosed, closeCount, ret>>
  /\ UNCHANGED <<auxVars, logVars>>

\* defer cancel()
\* Mutant: stream returns without cancelling the context it derived.
DeferCancel_NoCancel ==
  /\ pc = "defer_cancel"
  /\ pc' = "defer_close"
  /\ UNCHANGED <<op, status, sentAll, wire, eof, buf, delivered, cbRet,
                 ctxCancelled, cancelCalled, wpc, bodyClosed, closeCount,
                 endCause, streamErr, ret>>
  /\ UNCHANGED <<auxVars, logVars>>

DeferCancel ==
  /\ pc = "defer_cancel"
  /\ cancelCalled' = TRUE
  /\ pc' = "defer_close"
  /\ UNCHANGED <<op, status, sentAll, wire, eof, buf, delivered, cbRet,
                 ctxCancelled, wpc, bodyClosed, closeCount, endCause,
                 streamErr, ret>>
  /\ UNCHANGED <<auxVars, logVars>>

\* Mutant: stream returns without its deferred body.Close.
DeferClose_Skipped ==
  /\ pc = "defer_close"
  /\ ret' = [NoRet EXCEPT !.err = StreamResult(streamErr)]
  /\ pc' = "done"
  /\ UNCHANGED <<op, status, sentAll, wire, eof, buf, delivered, cbRet,
                 ctxCancelled, cancelCalled, wpc, bodyClosed, closeCount,
                 endCause, streamErr>>
  /\ UNCHANGED <<auxVars, logVars>>

\* defer body.Close(); Client.stream has returned and Client.Stream
\* converts its error.
DeferClose ==
  /\ pc = "defer_close"
  /\ bodyClosed' = TRUE
  /\ closeCount' = closeCount + 1
  /\ ret' = [NoRet EXCEPT !.err = StreamResult(streamErr)]
  /\ pc' = "done"
  /\ UNCHANGED <<op, status, sentAll, wire, eof, buf, delivered, cbRet,
                 ctxCancelled, cancelCalled, wpc, endCause, streamErr>>
  /\ UNCHANGED <<auxVars, logVars>>

--------------------------------------------------------------------------
\* Client.start: the construction of the outbound request.

\* A request with nothing set.
NoReq == [url |-> "", verb |-> "", clen |-> 0, ctype |-> "", auth |-> ""]

\* What start works from: whether the request URL can be built, the
\* Request's HTTPMethod, the length of its body, the Authorizer (none, one
\* that succeeds, one that fails) and the outcome of the round trip.
Cfgs ==
  [base : {"ok", "bad"}, verb : {"", "POST", "bad method"}, dlen : {0, 1},
   auth : {"none", "ok", "fail"}, transport : {"ok", "fail"}]

ErrURL == Basic("invalid URL")
ErrMethod == Basic("invalid method")
ErrAuth == Basic("authorizer refused")

\* start returns err.
StartReturn(err) ==
  /\ startErr' = err
  /\ startPc' = "done"

\* req.URL, req.Body, http.NewRequestWithContext, ContentLength and the
\* Content-Type header.
StartBuild ==
  /\ startPc = "build"
  /\ IF cfg.base = "bad"
     THEN StartReturn(MkError(0, <<>>, "invalid request URL", ErrURL))
          /\ UNCHANGED hreq
          /\ Log(<<>>)
     ELSE IF cfg.verb = "bad method"
     THEN StartReturn(MkError(0, <<>>, "invalid request", ErrMethod))
          /\ UNCHANGED hreq
          /\ Log(StartLogs("invalid request"))
     ELSE /\ Log(StartLogs(""))
          /\ hreq' = [url   |-> "requestURL",
                      verb  |-> IF cfg.verb = "" THEN "GET" ELSE cfg.verb,
                      clen  |-> cfg.dlen,
                      ctype |-> IF cfg.dlen > 0 THEN "dtype" ELSE "",
                      auth  |-> ""]
          /\ startPc' = "authorize"
          /\ UNCHANGED startErr
  /\ UNCHANGED <<cfg, authView, sentReq>>
  /\ UNCHANGED <<clientVars, paramVars, invokeVars>>

\* Mutant: a failing Authorizer does not abort the request.
StartAuthorize_IgnoresError ==
  /\ startPc = "authorize"
  /\ IF cfg.auth = "none"
     THEN UNCHANGED <<hreq, authView>>
     ELSE /\ authView' = hreq
          /\ hreq' = [hreq EXCEPT !.auth = "Bearer"]
  /\ startPc' = "do"
  /\ UNCHANGED <<cfg, sentReq, startErr>>
  /\ UNCHANGED <<clientVars, paramVars, invokeVars, logVars>>

\* The Authorizer, when one is configured, is called with the request.
StartAuthorize ==
  /\ startPc = "authorize"
  /\ IF cfg.auth = "none"
     THEN startPc' = "do" /\ UNCHANGED <<hreq, authView, startErr>>
          /\ Log(<<>>)
     ELSE /\ authView' = hreq
          /\ IF cfg.auth = "fail"
             THEN StartReturn(MkError(0, <<>>, "attaching authorization",
                                      ErrAuth))
                  /\ UNCHANGED hreq
                  /\ Log(<<>>)
             ELSE /\ hreq' = [hreq EXCEPT !.auth = "Bearer"]
                  /\ startPc' = "do"
                  /\ UNCHANGED startErr
                  /\ Log(IF hasLog
                         THEN <<Entry("Authorization", hreq'.auth)>>
                         ELSE <<>>)
  /\ UNCHANGED <<cfg, sentReq>>
  /\ UNCHANGED <<clientVars, paramVars, invokeVars>>

\* c.httpClient().Do(hreq)
StartDo ==
  /\ startPc = "do"
  /\ sentReq' = hreq
  /\ IF cfg.transport = "fail"
     THEN StartReturn(MkError(0, <<>>, "issuing request", ErrTransport))
     ELSE StartReturn(NilErr)
  /\ UNCHANGED <<cfg, hreq, authView>>
  /\ UNCHANGED <<clientVars, paramVars, invokeVars, logVars>>

--------------------------------------------------------------------------
\* Params (a map from parameter name to a list of values) and its encoding
\* into the query string.  A string is the sequence of its characters.

\* The parameter names, as sort.Strings orders them.
SortedNames == <<"ids", "tweet.fields">>
Names == {SortedNames[i] : i \in 1..Len(SortedNames)}

\* The parameter values callers pass.
Vals == {<<"x">>, <<"y">>, <<"x", ",", "y">>}

EmptyParams == [n \in {} |-> <<>>]

\* p[name], nil when the name is absent.
Get(p, n) == IF n \in DOMAIN p THEN p[n] ELSE <<>>

\* p[name] = v
Put(p, n, v) == [k \in DOMAIN p \cup {n} |-> IF k = n THEN v ELSE p[k]]

\* Mutant: Add without its early return.
ParamsAdd_NoEarlyReturn(p, n, vs) == Put(p, n, Get(p, n) \o vs)

\* Params.Add
ParamsAdd(p, n, vs) ==
  IF Len(vs) = 0 THEN p ELSE Put(p, n, Get(p, n) \o vs)

\* Mutant: Set keeps the earlier values.
ParamsSet_Appends(p, n, v) == Put(p, n, Get(p, n) \o <<v>>)

\* Params.Set
ParamsSet(p, n, v) == Put(p, n, <<v>>)

\* Params.Reset
ParamsReset(p, n) == [k \in DOMAIN p \ {n} |-> p[k]]

\* strings.Join(values, ",")
RECURSIVE Join(_)
Join(values) ==
  IF Len(values) = 0 THEN <<>>
  ELSE IF Len(values) = 1 THEN values[1]
  ELSE values[1] \o <<",">> \o Join(Tail(values))

\* Mutant: every value is added to the query on its own.
ParamsAddQueryTerms_AddsEach(p) == p

\* Params.addQueryTerms: query.Set(name, strings.Join(values, ",")) for
\* every name; the result is the url.Values map.
ParamsAddQueryTerms(p) == [n \in DOMAIN p |-> <<Join(p[n])>>]

\* url.QueryEscape on the characters that occur: a comma becomes %2C.
QueryEscape(str) ==
  [i \in 1..Len(str) |-> IF str[i] = "," THEN "%2C" ELSE str[i]]

\* The k=v pairs of one key, one for each of its values.
PairsOf(k, vs) == [i \in 1..Len(vs) |-> [k |-> k, v |-> QueryEscape(vs[i])]]

\* url.Values.Encode: the pairs of every key, the keys in sorted order.
RECURSIVE EncodeFrom(_, _)
EncodeFrom(q, i) ==
  IF i > Len(SortedNames) THEN <<>>
  ELSE (IF SortedNames[i] \in DOMAIN q
        THEN PairsOf(SortedNames[i], q[SortedNames[i]]) ELSE <<>>)
       \o EncodeFrom(q, i + 1)

Encode(q) == EncodeFrom(q, 1)

\* The query of the URL parsed from the base URL.
BaseQuery == <<>>

\* Request.addQueryTerms: u.RawQuery after the call.
RequestAddQueryTerms(p) ==
  IF Cardinality(DOMAIN p) = 0 THEN BaseQuery
  ELSE Encode(ParamsAddQueryTerms(p))

NoOp == [op |-> "none", name |-> "", vals |-> <<>>, before |-> <<>>]

\* The request's Params are filled in before the request is started; start
\* builds the URL of the request once.
Building == lastOp.op # "Encode"

\* p.Add(n, vs...)
Add(n, vs) ==
  /\ Building
  /\ Len(Get(params, n)) + Len(vs) <= MaxVals
  /\ params' = ParamsAdd(params, n, vs)
  /\ lastOp' = [op |-> "Add", name |-> n, vals |-> vs,
                before |-> Get(params, n)]
  /\ UNCHANGED rawQuery
  /\ UNCHANGED <<clientVars, startVars, invokeVars, logVars>>

\* p.Set(n, v)
Set(n, v) ==
  /\ Building
  /\ params' = ParamsSet(params, n, v)
  /\ lastOp' = [op |-> "Set", name |-> n, vals |-> <<v>>,
                before |-> Get(params, n)]
  /\ UNCHANGED rawQuery
  /\ UNCHANGED <<clientVars, startVars, invokeVars, logVars>>

\* p.Reset(n)
Reset(n) ==
  /\ Building
  /\ params' = ParamsReset(params, n)
  /\ lastOp' = [op |-> "Reset", name |-> n, vals |-> <<>>,
                before |-> Get(params, n)]
  /\ UNCHANGED rawQuery
  /\ UNCHANGED <<clientVars, startVars, invokeVars, logVars>>

\* req.addQueryTerms(u) on the URL of a new request.
AddQueryTerms ==
  /\ Building
  /\ rawQuery' = RequestAddQueryTerms(params)
  /\ lastOp' = [NoOp EXCEPT !.op = "Encode"]
  /\ UNCHANGED params
  /\ UNCHANGED <<clientVars, startVars, invokeVars, logVars>>

\* The maps a request starts from: make(Params), or a literal whose list of
\* values may be empty.
ParamLiterals == {EmptyParams, [n \in {"ids"} |-> <<>>]}

\* No operation on Params has been made.
ParamsInit ==
  /\ params = EmptyParams
  /\ lastOp = NoOp
  /\ rawQuery = BaseQuery

--------------------------------------------------------------------------
\* No call of start is being followed step by step.
StartOff ==
  /\ startPc = "off"
  /\ cfg = [base |-> "ok", verb |-> "", dlen |-> 0, auth |-> "none",
            transport |-> "ok"]
  /\ hreq = NoReq
  /\ authView = NoReq
  /\ sentReq = NoReq
  /\ startErr = NilErr

\* A Client with or without the hook; nothing logged yet.
LogInit ==
  /\ hasLog \in BOOLEAN
  /\ logged = <<>>

\* A Client without the hook.
LogOff ==
  /\ hasLog = FALSE
  /\ logged = <<>>

ClientInit ==
  /\ op = "none"
  /\ pc = "idle"
  /\ status = 0
  /\ sentAll = <<>>
  /\ wire = <<>>
  /\ eof = "open"
  /\ buf = <<>>
  /\ delivered = <<>>
  /\ cbRet = <<>>
  /\ ctxCancelled = FALSE
  /\ cancelCalled = FALSE
  /\ wpc = "none"
  /\ bodyClosed = FALSE
  /\ closeCount = 0
  /\ endCause = "none"
  /\ streamErr = NilErr
  /\ ret = NoRet

--------------------------------------------------------------------------
\* Query.Invoke of the rules and of the tweets package: Client.Call, then
\* the decoding of the reply's Data and Meta.

\* A json.RawMessage member of the reply: absent from the envelope (no
\* bytes), an array of items that decodes, or JSON of another shape.
NoBytes == [kind |-> "absent", items |-> <<>>]
Mistyped == [kind |-> "bad", items |-> <<>>]
RawData ==
  {NoBytes, Mistyped} \cup
  {[kind |-> "ok", items |-> s] : s \in SeqsUpTo(Payloads, MaxItems)}
RawMeta == {NoBytes, Mistyped, [kind |-> "ok", items |-> <<>>]}

\* What Client.Call hands to Invoke.
CallResults ==
  [callErr : {NilErr}, data : RawData, meta : RawMeta] \cup
  {[callErr |-> MkError(0, <<>>, "issuing request", ErrTransport),
    data |-> NoBytes, meta |-> NoBytes]}

\* json.Unmarshal of a raw member: its error.
UnmarshalRaw(raw) ==
  CASE raw.kind = "ok" -> NilErr
    [] raw.kind = "absent" -> Basic("unexpected end of JSON input")
    [] OTHER -> UnmarshalTypeError

InvokeFailed(err) == [nil |-> TRUE, items |-> <<>>, hasMeta |-> FALSE, err |-> err]

\* tweets.Query.Invoke, after Client.Call returned r.
TweetsInvoke(r) ==
  IF r.callErr # NilErr THEN InvokeFailed(r.callErr)
  ELSE IF r.data.kind # "absent" /\ UnmarshalRaw(r.data) # NilErr
  THEN InvokeFailed(MkError(0, r.data, "decoding tweet data",
                            UnmarshalRaw(r.data)))
  ELSE IF r.meta.kind # "absent" /\ UnmarshalRaw(r.meta) # NilErr
  THEN InvokeFailed(MkError(0, r.meta, "decoding response metadata",
                            UnmarshalRaw(r.meta)))
  ELSE [nil |-> FALSE, items |-> r.data.items,
        hasMeta |-> r.meta.kind # "absent", err |-> NilErr]

\* rules.Query.Invoke, after Client.Call returned r.
RulesInvoke(r) ==
  IF r.callErr # NilErr THEN InvokeFailed(r.callErr)
  ELSE IF r.data.kind # "absent" /\ UnmarshalRaw(r.data) # NilErr
  THEN InvokeFailed(MkError(0, r.data, "decoding rules data",
                            UnmarshalRaw(r.data)))
  ELSE IF UnmarshalRaw(r.meta) # NilErr
  THEN InvokeFailed(MkError(0, r.meta, "decoding rules metadata",
                            UnmarshalRaw(r.meta)))
  ELSE [nil |-> FALSE, items |-> r.data.items, hasMeta |-> TRUE,
        err |-> NilErr]

InvokeReturn(out) ==
  /\ invPc = "call"
  /\ invOut' = out
  /\ invPc' = "done"
  /\ UNCHANGED invIn
  /\ UNCHANGED <<clientVars, startVars, paramVars, logVars>>

\* q.Invoke(ctx, cli) for a tweets query
TweetsQueryInvoke ==
  /\ invIn.query = "tweets"
  /\ InvokeReturn(TweetsInvoke(invIn.rsp))

\* q.Invoke(ctx, cli) for a rules query
RulesQueryInvoke ==
  /\ invIn.query = "rules"
  /\ InvokeReturn(RulesInvoke(invIn.rsp))

NoInvoke == [query |-> "none", rsp |-> [callErr |-> NilErr, data |-> NoBytes, meta |-> NoBytes]]

\* No query is being invoked.
InvokeOff ==
  /\ invPc = "off"
  /\ invIn = NoInvoke
  /\ invOut = InvokeFailed(NilErr)

\* A Client as constructed: the hook is nil.
Init == ClientInit /\ LogOff /\ StartOff /\ ParamsInit /\ InvokeOff

Next ==
  \/ \E o \in {"Call", "CallRaw", "Stream"}, m \in StartPhases : StartFail(o, m)
  \/ \E s \in Statuses, b \in Bodies : Call(s, b)
  \/ \E s \in Statuses, b \in Bodies : CallRaw(s, b)
  \/ \E s \in Statuses, b \in Bodies : StreamReject(s, b)
  \/ \E s \in Statuses : StreamOpen(s)
  \/ \E v \in Values : ServerSend(v)
  \/ \E how \in {"clean", "partial"} : ServerClose(how)
  \/ CancelCtx
  \/ WatcherClose
  \/ Decode
  \/ \E e \in CallbackResults : CallbackReturn(e)
  \/ DeferCancel
  \/ DeferClose

Spec == Init /\ [][Next]_vars

\* The client with the hook set or nil.
LogSpecInit == ClientInit /\ LogInit /\ StartOff /\ ParamsInit /\ InvokeOff

LogSpec == LogSpecInit /\ [][Next]_vars

\* One call of Client.start on every Request and configuration.
StartInit ==
  /\ ClientInit
  /\ LogInit
  /\ startPc = "build"
  /\ cfg \in Cfgs
  /\ hreq = NoReq
  /\ authView = NoReq
  /\ sentReq = NoReq
  /\ startErr = NilErr
  /\ ParamsInit
  /\ InvokeOff

StartNext == StartBuild \/ StartAuthorize \/ StartDo

StartSpec == StartInit /\ [][StartNext]_vars

\* A Params map built by any sequence of Add, Set and Reset, and encoded.
ParamsSpecInit ==
  /\ ClientInit
  /\ LogOff
  /\ StartOff
  /\ params \in ParamLiterals
  /\ lastOp = NoOp
  /\ rawQuery = BaseQuery
  /\ InvokeOff

ParamsNext ==
  \/ \E n \in Names, vs \in SeqsUpTo(Vals, MaxVals) : Add(n, vs)
  \/ \E n \in Names, v \in Vals : Set(n, v)
  \/ \E n \in Names : Reset(n)
  \/ AddQueryTerms

ParamsSpec == ParamsSpecInit /\ [][ParamsNext]_vars

\* One Invoke of a rules or tweets query, for every reply of Client.Call.
InvokeInit ==
  /\ ClientInit
  /\ LogOff
  /\ StartOff
  /\ ParamsInit
  /\ invPc = "call"
  /\ invIn \in [query : {"rules", "tweets"}, rsp : CallResults]
  /\ invOut = InvokeFailed(NilErr)

InvokeNext == TweetsQueryInvoke \/ RulesQueryInvoke

InvokeSpec == InvokeInit /\ [][InvokeNext]_vars

\* The goroutines of one Stream are scheduled fairly and the callback
\* returns; the server and the caller's cancellation are not obliged to act.
FairSpec ==
  /\ Spec
  /\ WF_vars(WatcherClose)
  /\ WF_vars(Decode)
  /\ WF_vars(\E e \in CallbackResults : CallbackReturn(e))
  /\ WF_vars(DeferCancel)
  /\ WF_vars(DeferClose)

--------------------------------------------------------------------------
\* Properties.

\* Stream obtained a response and has returned.
StreamReturned == op = "Stream" /\ pc = "done" /\ status # 0

\* Number of values read from the body, and handed out by the decoder.
nRead == Len(sentAll) - Len(wire)
nTaken == nRead - Len(buf)

Last(s) == s[Len(s)]

\* C1: when the body of a successful response ends cleanly after zero or
\* more messages whose callbacks all returned nil, and the context was never
\* cancelled, Stream returns nil.
C1_CleanEndReturnsNil ==
  ( /\ StreamReturned
    /\ endCause = "eof"
    /\ ~ctxCancelled
    /\ \A i \in 1..Len(cbRet) : cbRet[i] = NilErr )
  => ret.err = NilErr

\* C2: every non-nil callback error other than the stop sentinel (or an
\* error wrapping it), io.EOF included, makes Stream return a non-nil Error
\* tagged "callback" whose cause is that error.
C2_CallbackErrorPropagated ==
  ( /\ StreamReturned
    /\ endCause = "callback"
    /\ ~ErrorsIs(Last(cbRet), ErrStopStreaming) )
  => /\ IsErrorType(ret.err)
     /\ ret.err[1].Message = "callback"
     /\ Unwrap(ret.err) = Last(cbRet)

\* C3: if the callback returns the stop sentinel on its n-th invocation, it
\* has been invoked exactly n times in total, the loop is over whatever the
\* body still holds, and Stream returns nil.
C3_StopAfterNth ==
  \A n \in 1..Len(cbRet) :
    ErrorsIs(cbRet[n], ErrStopStreaming)
    => /\ Len(cbRet) = n
       /\ Len(delivered) = n
       /\ pc \in {"defer_cancel", "defer_close", "done"}
       /\ (pc = "done" => ret.err = NilErr)

C3_Witness ==
  /\ StreamReturned
  /\ Len(cbRet) = 2
  /\ cbRet[2] = ErrStopStreaming
  /\ Len(sentAll) = 3
  /\ sentAll[3].kind = "obj"
  /\ ~ctxCancelled
  /\ ret.err = NilErr

\* The k-th callback invocation receives the Reply of the k-th value of the
\* body, and each invocation carries one value.
DeliveredInOrder ==
  /\ Len(delivered) <= Len(sentAll)
  /\ \A k \in 1..Len(delivered) :
       /\ sentAll[k].kind = "obj"
       /\ delivered[k] = [Data |-> sentAll[k].data]
  /\ Len(delivered) = Len(cbRet) + (IF pc = "callback" THEN 1 ELSE 0)

\* C4 as stated: delivery in order, one value per invocation, and value k+1
\* is not read from the body before the callback for value k has returned.
C4_NoReadAhead ==
  /\ DeliveredInOrder
  /\ (pc = "callback" => nRead <= Len(delivered))

\* C4 as amended: delivery in order, one value per invocation, and value
\* k+1 is not handed out by the decoder before the callback for value k has
\* returned (the decoder may already have read it into its buffer).
C4_NoDecodeAhead ==
  /\ DeliveredInOrder
  /\ (pc = "callback" => nTaken = Len(delivered))
  /\ (pc = "decode" => nTaken = Len(cbRet))

C4_Witness ==
  /\ pc = "callback"
  /\ Len(delivered) = 2
  /\ delivered[1] # delivered[2]
  /\ buf # <<>>

\* C5: a Call that obtained a response returns an Error exactly when the
\* status is outside {200, 201} or the body is not a JSON envelope.
C5_CallErrorIff ==
  (op = "Call" /\ pc = "done" /\ status # 0)
  => ( (ret.err # NilErr)
       <=> ( \/ status \notin {StatusOK, StatusCreated}
             \/ ~(Len(sentAll) = 1 /\ sentAll[1].kind = "obj") ) )

C5_Witness ==
  /\ op = "Call" /\ pc = "done"
  /\ status = StatusCreated
  /\ ret.err = NilErr
  /\ ret.reply = <<[Data |-> 1]>>

\* C6: a non-success status makes Call and CallRaw return a nil result and
\* an Error whose Status is the response's status and whose Data is the
\* whole body.
C6_StatusErrorCarriesBody ==
  ( /\ op \in {"Call", "CallRaw"} /\ pc = "done" /\ status # 0
    /\ status \notin {StatusOK, StatusCreated} )
  => /\ ret.reply = NilReply
     /\ ret.dataNil
     /\ IsErrorType(ret.err)
     /\ ret.err[1].Status = status
     /\ ret.err[1].Data = sentAll

C6_Witness ==
  /\ op = "CallRaw" /\ pc = "done"
  /\ status \notin {StatusOK, StatusCreated}
  /\ Len(sentAll) = 2
  /\ ret.err # NilErr

\* C7: Stream classifies the status as Call and CallRaw do: it enters the
\* decode loop exactly when the status is in {200, 201}, and otherwise
\* returns an Error with the status and the body, the callback not invoked.
C7_SamePolicy ==
  (op = "Stream" /\ status # 0)
  => /\ (wpc # "none") <=> (status \in {StatusOK, StatusCreated})
     /\ (status \notin {StatusOK, StatusCreated} /\ pc = "done")
        => /\ IsErrorType(ret.err)
           /\ ret.err[1].Status = status
           /\ ret.err[1].Data = sentAll
           /\ delivered = <<>>

\* C8: once the caller's context is cancelled during a Stream, Stream
\* eventually returns, and the body is closed whenever Stream has returned.
C8_CancelTerminates ==
  /\ (op = "Stream" /\ ctxCancelled) ~> (pc = "done")
  /\ [](StreamReturned => bodyClosed)

C8_Witness ==
  /\ StreamReturned
  /\ ctxCancelled
  /\ endCause = "closed"
  /\ sentAll = <<>>
  /\ eof = "open"

\* C9: when the watcher's forced close of the body after a cancellation is
\* what made the pending decode fail, Stream returns nil.
C9_ForcedCloseIsNormalStop ==
  ( /\ StreamReturned
    /\ ctxCancelled
    /\ endCause \in {"closed", "closedEOF"} )
  => ret.err = NilErr

\* C10 as stated: once Stream and the watcher have both finished, Close
\* has been invoked exactly once.
C10_ClosedExactlyOnce ==
  (StreamReturned /\ wpc # "waiting") => closeCount = 1

\* C10 as amended: once both have finished, Close has been invoked once on
\* the non-success path (no watcher) and twice, by the deferred close and by
\* the watcher, on every path through the decode loop; the body is closed
\* when Stream returns and Close is never invoked a third time.
C10_CloseCounts ==
  /\ closeCount <= 2
  /\ (StreamReturned /\ wpc # "waiting")
     => /\ bodyClosed
        /\ closeCount = (IF wpc = "none" THEN 1 ELSE 2)
        /\ (wpc = "none") <=> (endCause = "status")

C10_Witness ==
  /\ StreamReturned
  /\ wpc = "done"
  /\ ctxCancelled
  /\ endCause = "callback"
  /\ closeCount = 2


\* C14: every outcome of Call is a non-nil Reply with a nil error or a nil
\* Reply with a non-nil error, and every non-nil error returned by Call,
\* CallRaw or Stream is an *Error, whichever phase failed.
C14_ErrorsAreTyped ==
  pc = "done"
  => /\ (op = "Call" => ((ret.reply # NilReply) <=> (ret.err = NilErr)))
     /\ (ret.err # NilErr => IsErrorType(ret.err))

C14_Witness ==
  /\ op = "Call" /\ pc = "done"
  /\ status = StatusOK
  /\ ret.reply = NilReply
  /\ IsErrorType(ret.err)
  /\ ret.err[1].Message = "decoding response body"

\* C15: every decode Error carries the offending raw bytes in Data: the
\* body in Call, the malformed fragment when Decode fails in Stream, the
\* decoded value when it cannot be unmarshalled into a Reply in Stream.
C15_DecodeErrorsCarryBytes ==
  /\ ( /\ op = "Call" /\ pc = "done"
       /\ status \in {StatusOK, StatusCreated}
       /\ ret.err # NilErr )
     => ret.err[1].Data = sentAll
  /\ (StreamReturned /\ endCause \in {"syntax", "unmarshal"})
     => /\ IsErrorType(ret.err)
        /\ ret.err[1].Data = <<sentAll[nTaken]>>

\* C18: Call, CallRaw and the non-success path of Stream read the body to
\* its end and close it before they return, on every path.
C18_DrainedThenClosed ==
  ( /\ pc = "done" /\ status # 0
    /\ (op \in {"Call", "CallRaw"} \/ endCause = "status") )
  => /\ bodyClosed
     /\ closeCount >= 1
     /\ wire = <<>>
     /\ eof = "clean"

C18_Witness ==
  /\ op = "Call" /\ pc = "done"
  /\ status = StatusOK
  /\ Len(sentAll) = 2
  /\ ret.err # NilErr
  /\ bodyClosed

\* The decode loop has ended: Stopped or Failed.
Terminal == endCause # "none"

\* C19: the callback is invoked only after a successful status
\* classification, at most one invocation is in progress, Delivering leads
\* back to Open or to a terminal state, and once the loop has ended the
\* callback is not invoked again and nothing more is read from the body.
C19_StateMachine ==
  /\ [](delivered # <<>> => (op = "Stream" /\ StreamStatusOK(status)))
  /\ []( /\ Len(delivered) - Len(cbRet) \in {0, 1}
         /\ (Len(delivered) > Len(cbRet)) <=> (pc = "callback") )
  /\ [][pc = "callback" => pc' \in {"callback", "decode", "defer_cancel"}]_vars
  /\ [][Terminal =>
          /\ Terminal'
          /\ pc' \in {"defer_cancel", "defer_close", "done"}
          /\ delivered' = delivered
          /\ cbRet' = cbRet
          /\ wire' = wire
          /\ buf' = buf]_vars

C19_Witness ==
  /\ StreamReturned
  /\ endCause = "callback"
  /\ Len(delivered) = 1
  /\ wire # <<>>
  /\ buf # <<>>


\* C11: the Authorizer, when configured, is called after the URL, verb,
\* body length and content type of the request are final and before the
\* request is handed to the HTTP client; when it fails, no request is
\* issued and start returns an Error tagged "attaching authorization"
\* whose cause is the Authorizer's error.
C11_AuthorizeLastAndAborts ==
  /\ authView # NoReq
     => /\ cfg.auth # "none"
        /\ authView.url # ""
        /\ authView.verb = (IF cfg.verb = "" THEN "GET" ELSE cfg.verb)
        /\ authView.clen = cfg.dlen
        /\ (authView.ctype # "") <=> (cfg.dlen > 0)
        /\ authView.auth = ""
  /\ sentReq # NoReq
     => /\ (cfg.auth = "none" => sentReq.auth = "" /\ authView = NoReq)
        /\ (cfg.auth # "none"
              => authView # NoReq /\ sentReq = [authView EXCEPT !.auth = "Bearer"])
  /\ (cfg.auth = "fail" /\ authView # NoReq)
     => /\ sentReq = NoReq
        /\ startPc = "done"
        /\ IsErrorType(startErr)
        /\ startErr[1].Message = "attaching authorization"
        /\ Unwrap(startErr) = ErrAuth

C11_Witness ==
  /\ startPc = "done"
  /\ cfg.auth = "fail"
  /\ cfg.dlen = 1
  /\ cfg.verb = "POST"
  /\ authView.ctype = "dtype"
  /\ sentReq = NoReq
  /\ startErr # NilErr


\* The pairs of the encoded query whose key is n.
PairsFor(q, n) == {i \in 1..Len(q) : q[i].k = n}

\* url.QueryUnescape on the characters that occur.
QueryUnescape(str) ==
  [i \in 1..Len(str) |-> IF str[i] = "%2C" THEN "," ELSE str[i]]

\* The query maps n to the string v, and to nothing else.
QueryMaps(q, n, v) ==
  /\ Cardinality(PairsFor(q, n)) = 1
  /\ \A i \in PairsFor(q, n) : QueryUnescape(q[i].v) = v

\* C12: after any Adds on a name n, Set(n, v) leaves exactly [v] stored for
\* n, and the encoded query maps n to v alone.
C12_SetReplaces ==
  lastOp.op = "Set"
  => /\ lastOp.name \in DOMAIN params
     /\ params[lastOp.name] = lastOp.vals
     /\ Len(lastOp.vals) = 1
     /\ QueryMaps(RequestAddQueryTerms(params), lastOp.name, lastOp.vals[1])

C12_Witness ==
  /\ lastOp.op = "Set"
  /\ Len(lastOp.before) = 2
  /\ lastOp.before[1] # lastOp.vals[1]
  /\ lastOp.before[2] # lastOp.vals[1]

\* The values of one name written one after the other, a comma between two
\* neighbours.
RECURSIVE CommaJoined(_, _)
CommaJoined(str, values) ==
  IF Len(values) = 0 THEN str = <<>>
  ELSE IF Len(values) = 1 THEN str = values[1]
  ELSE /\ Len(str) > Len(values[1])
       /\ SubSeq(str, 1, Len(values[1])) = values[1]
       /\ str[Len(values[1]) + 1] = ","
       /\ CommaJoined(SubSeq(str, Len(values[1]) + 2, Len(str)), Tail(values))

\* C13: in the encoded query every name of Params occurs exactly once, its
\* value the name's values joined with commas in their stored order, and no
\* other name occurs; with no Params the query stays empty.
C13_QueryEncoding ==
  lastOp.op = "Encode"
  => /\ \A n \in DOMAIN params :
          /\ Cardinality(PairsFor(rawQuery, n)) = 1
          /\ \A i \in PairsFor(rawQuery, n) :
               CommaJoined(QueryUnescape(rawQuery[i].v), params[n])
     /\ \A i \in 1..Len(rawQuery) : rawQuery[i].k \in DOMAIN params
     /\ (DOMAIN params = {} => rawQuery = <<>>)

C13_Witness ==
  /\ lastOp.op = "Encode"
  /\ DOMAIN params = Names
  /\ Len(params["ids"]) = 2
  /\ params["ids"][1] # params["ids"][2]
  /\ Len(rawQuery) = 2

\* C20: Add(n, vs...) keeps the values stored for n in place and in order
\* and appends vs after them, leaves every other name as it was, and with
\* no values leaves the map as it was; Reset(n) removes n and leaves every
\* other name as it was.
C20_AddResetFrame ==
  [][ /\ lastOp'.op = "Add"
         => LET n == lastOp'.name
                vs == lastOp'.vals
                old == Get(params, n)
            IN  IF Len(vs) = 0 THEN params' = params
                ELSE /\ DOMAIN params' = DOMAIN params \cup {n}
                     /\ Len(params'[n]) = Len(old) + Len(vs)
                     /\ SubSeq(params'[n], 1, Len(old)) = old
                     /\ SubSeq(params'[n], Len(old) + 1, Len(params'[n])) = vs
                     /\ \A k \in DOMAIN params \ {n} : params'[k] = params[k]
      /\ lastOp'.op = "Reset"
         => /\ DOMAIN params' = DOMAIN params \ {lastOp'.name}
            /\ \A k \in DOMAIN params' : params'[k] = params[k] ]_vars

C20_Witness ==
  /\ lastOp.op = "Add"
  /\ Len(lastOp.before) = 1
  /\ Len(lastOp.vals) = 1
  /\ DOMAIN params = Names
  /\ params[lastOp.name] = lastOp.before \o lastOp.vals


\* C17: a rules query whose Call succeeds with an envelope holding no rule
\* data returns from Invoke with no error and zero Rules, whenever a tweets
\* query given the same envelope returns with no error.
C17_RulesLikeTweets ==
  (/\ invPc = "done"
   /\ invIn.query = "rules"
   /\ invIn.rsp.callErr = NilErr
   /\ invIn.rsp.data.kind = "absent"
   /\ TweetsInvoke(invIn.rsp).err = NilErr)
  => /\ invOut.err = NilErr
     /\ ~invOut.nil
     /\ Len(invOut.items) = 0


\* The steps of the client when the hook is set (h) or nil (~h), the calls
\* of the hook themselves left out.
ObsNext(h) ==
  \/ /\ pc = "idle"
     /\ \/ \E o \in {"Call", "CallRaw", "Stream"}, msg \in StartPhases :
             StartFailWith(h, o, msg)
        \/ \E s \in Statuses, b \in Bodies : CallWith(h, s, b)
        \/ \E s \in Statuses, b \in Bodies : CallRawWith(h, s, b)
        \/ \E s \in Statuses, b \in Bodies : StreamRejectWith(h, s, b)
        \/ \E s \in Statuses : StreamOpenWith(h, s)
  \/ \E v \in Values : ServerSend(v)
  \/ \E how \in {"clean", "partial"} : ServerClose(how)
  \/ CancelCtx
  \/ WatcherClose
  \/ DecodeWith(h)
  \/ \E e \in CallbackResults : CallbackReturn(e)
  \/ DeferCancel
  \/ DeferClose

\* C16: the hook is observational.  Every step a client takes with the hook
\* set is, on the returned values, the callback invocations and the reads
\* and closes of the body, a step of the client with the hook nil, and the
\* other way round; the hook itself is never changed.
C16_LogIsObservational ==
  [][ObsNext(~hasLog) /\ hasLog' = hasLog]_vars

C16_Witness ==
  /\ hasLog
  /\ StreamReturned
  /\ Len(delivered) = 2
  /\ \E i \in 1..Len(logged) : logged[i].tag = "StreamBody"
  /\ \E i \in 1..Len(logged) : logged[i].tag = "HTTPStatus"


\* The messages of the Errors that are not status errors.
PureMessages ==
  StartPhases \cup
  {"decoding response body", "decoding message from stream",
   "decoding stream response", "callback"}

\* The status received was classified as a failure by the operation.
StatusRejected ==
  /\ status # 0
  /\ IF op = "Stream" THEN ~StreamStatusOK(status) ELSE ~ReceiveStatusOK(status)

\* C21: every Error returned by Call, CallRaw or Stream is either a status
\* error, whose non-zero Status is the status received, whose Data is the
\* body received and which comes from the status classification, or a pure
\* transport, authorization, decode or callback error with Status zero;
\* never both.
C21_StatusXorPure ==
  (pc = "done" /\ ret.err # NilErr)
  => /\ IsErrorType(ret.err)
     /\ IF ret.err[1].Status # 0
        THEN /\ StatusRejected
             /\ ret.err[1].Status = status
             /\ ret.err[1].Data = sentAll
             /\ ret.err[1].Message = "request failed"
        ELSE /\ ret.err[1].Message \in PureMessages
             /\ ~StatusRejected

C21_Witness ==
  /\ op = "Stream" /\ pc = "done"
  /\ cbRet # <<>> /\ Last(cbRet) = CallbackStatusError
  /\ IsErrorType(ret.err)
  /\ ret.err[1].Status = 0
  /\ ret.err[1].Message = "callback"
  /\ Unwrap(ret.err) = CallbackStatusError


\* The decode loop of a stream has been left, on whichever path.
LoopLeft == op = "Stream" /\ pc \in {"defer_cancel", "defer_close", "done"}

\* C22: once the decode loop has been left with the watcher started, the
\* watcher terminates, whether or not the caller's context is ever
\* cancelled; the one thing the watcher does to the body is to close it.
C22_WatcherReleased ==
  /\ (LoopLeft /\ wpc = "waiting") ~> (wpc = "done")
  /\ [][wpc' # wpc
        => \/ wpc = "none" /\ wpc' = "waiting" /\ pc = "idle"
           \/ /\ wpc = "waiting" /\ wpc' = "done"
              /\ bodyClosed'
              /\ closeCount' = closeCount + 1
              /\ UNCHANGED <<pc, sentAll, wire, eof, buf, delivered, cbRet,
                             ctxCancelled, cancelCalled, endCause, streamErr,
                             ret>>]_vars

C22_Witness ==
  /\ StreamReturned
  /\ ~ctxCancelled
  /\ cancelCalled
  /\ wpc = "done"
  /\ endCause = "eof"
  /\ Len(delivered) = 2

==========================================================================
